---- MODULE Spec2Model ----
(***************************************************************************)
(* A model of app.py of MCStatusAPI-python: the address resolver           *)
(* (parse_address, resolve_srv_record), the MOTD renderer (motd_to_html,   *)
(* and the clean derivation of get_java_status), the status aggregators    *)
(* (get_java_status, get_bedrock_status) and the two HTTP routes running   *)
(* on one asyncio event loop.                                              *)
(*                                                                         *)
(* Python strings are sequences of one-character strings; the character    *)
(* "&" stands for the control character U+00A7.  Optional values are       *)
(* sequences of length 0 (None) or 1.                                      *)
(***************************************************************************)
EXTENDS Integers, Sequences, FiniteSets, TLC

VARIABLES
    \* --- one call of parse_address ---
    p_address,      \* the argument
    p_pc,           \* "call" | "returned" | "raised"
    p_ret,          \* what the call produced
    \* --- description processing of get_java_status (lines 129-130) ---
    motd,           \* java_status.description
    m_pc,           \* "idle" | "clean" | "scan" | "close" | "replace" | "done" | "fault"
    motd_clean,     \* line 129
    i,              \* scan index of motd_to_html (0-based, as in the source)
    current_html,   \* sequence of tokens: tags and single characters
    current_color,  \* "" or the active color code
    current_styles, \* stack of closers
    \* --- requests on the event loop ---
    req,            \* per request: the frame of the route and of the aggregator
    loop            \* the set (of at most one request) whose coroutine holds the event loop

vars == <<p_address, p_pc, p_ret, motd, m_pc, motd_clean, i, current_html,
          current_color, current_styles, req, loop>>
parseVars == <<p_address, p_pc, p_ret>>
motdVars == <<motd, m_pc, motd_clean, i, current_html, current_color, current_styles>>
reqVars == <<req, loop>>

(***************************************************************************)
(* Bounds of the model.                                                    *)
(***************************************************************************)
MaxAddrLen == 5
MaxMotdLen == 5
NumRequests == 2

(***************************************************************************)
(* Strings.                                                                *)
(***************************************************************************)
None == <<>>
Some(v) == <<v>>

Digits == {"0", "1", "2", "3", "4", "5", "6", "7", "8", "9"}

DigitVal(c) ==
    CASE c = "0" -> 0 [] c = "1" -> 1 [] c = "2" -> 2 [] c = "3" -> 3
      [] c = "4" -> 4 [] c = "5" -> 5 [] c = "6" -> 6 [] c = "7" -> 7
      [] c = "8" -> 8 [] c = "9" -> 9

StringsUpTo(alphabet, n) == UNION {[1..k -> alphabet] : k \in 0..n}

Contains(s, c) == \E k \in 1..Len(s) : s[k] = c

FirstIndex(s, c) == CHOOSE k \in 1..Len(s) : s[k] = c /\ \A j \in 1..(k-1) : s[j] # c

\* \d+ over the model's alphabet
IsDigits(s) == Len(s) > 0 /\ \A k \in 1..Len(s) : s[k] \in Digits

\* \d{1,3}
IsOctet(s) == IsDigits(s) /\ Len(s) <= 3

\* int(s): the model's alphabets hold no sign, blank or underscore, so int
\* accepts exactly the non-empty digit strings and raises ValueError otherwise.
IntOk(s) == IsDigits(s)

RECURSIVE IntVal(_)
IntVal(s) ==
    IF Len(s) = 0 THEN 0
    ELSE 10 * IntVal(SubSeq(s, 1, Len(s) - 1)) + DigitVal(s[Len(s)])

\* str.split(":"): every colon separates two fields
RECURSIVE Split(_)
Split(s) ==
    IF ~Contains(s, ":") THEN <<s>>
    ELSE LET k == FirstIndex(s, ":")
         IN <<SubSeq(s, 1, k - 1)>> \o Split(SubSeq(s, k + 1, Len(s)))

(***************************************************************************)
(* parse_address and resolve_srv_record.                                   *)
(***************************************************************************)
\* The positions where  \d{1,3}\.\d{1,3}\.\d{1,3}\.\d{1,3}  can end in s.
IpEnds(s) ==
    {k \in 1..Len(s) :
        \E a \in 1..Len(s) :
            /\ s[a] = "."
            /\ IsOctet(SubSeq(s, 1, a - 1))
            /\ \E b \in (a + 1)..Len(s) :
                  /\ s[b] = "."
                  /\ IsOctet(SubSeq(s, a + 1, b - 1))
                  /\ \E c \in (b + 1)..(k - 1) :
                        /\ s[c] = "."
                        /\ IsOctet(SubSeq(s, b + 1, c - 1))
                        /\ IsOctet(SubSeq(s, c + 1, k))}

\* re.match(ip_port_regex, address): the ends of group 1 that let the whole
\* pattern match (at most one, group 1 holding no colon).
IpMatchEnds(s) ==
    {k \in IpEnds(s) :
        \/ k = Len(s)
        \/ /\ k + 1 <= Len(s)
           /\ s[k + 1] = ":"
           /\ IsDigits(SubSeq(s, k + 2, Len(s)))}

ip_match(address) ==
    IF IpMatchEnds(address) = {}
    THEN [matched |-> FALSE, group1 |-> <<>>, group2 |-> None]
    ELSE LET k == CHOOSE k \in IpMatchEnds(address) : TRUE
         IN [matched |-> TRUE,
             group1 |-> SubSeq(address, 1, k),
             group2 |-> IF k = Len(address) THEN None
                        ELSE Some(SubSeq(address, k + 2, Len(address)))]

\* What the DNS resolver does with one SRV query: it answers with one or more
\* records, or raises NoAnswer, NXDOMAIN, or another DNSException (a timeout).
SrvRecords ==
    {<<[target |-> "mc.example.net.", port |-> 25566]>>,
     <<[target |-> "a.example.net.", port |-> 25567],
       [target |-> "b.example.net.", port |-> 25568]>>}

DnsOutcomes ==
    {[kind |-> "answer", records |-> r] : r \in SrvRecords}
    \cup {[kind |-> k, records |-> <<>>] : k \in {"NoAnswer", "NXDOMAIN", "Timeout"}}

resolve_srv_record(domain, dns) ==
    IF dns.kind = "answer" /\ Len(dns.records) > 0
    THEN [raised |-> FALSE, exc |-> "",
          target |-> Some(dns.records[1].target), port |-> Some(dns.records[1].port)]
    ELSE IF dns.kind \in {"answer", "NoAnswer", "NXDOMAIN"}
    THEN [raised |-> FALSE, exc |-> "", target |-> None, port |-> None]
    ELSE [raised |-> TRUE, exc |-> "DNSException", target |-> None, port |-> None]

Raise(exc, srvLog) ==
    [raised |-> TRUE, exc |-> exc, host |-> <<>>, port |-> None,
     SRVtarget |-> None, SRVport |-> None, srvLog |-> srvLog]

Return(host, port, SRVtarget, SRVport, srvLog) ==
    [raised |-> FALSE, exc |-> "", host |-> host, port |-> port,
     SRVtarget |-> SRVtarget, SRVport |-> SRVport, srvLog |-> srvLog]

\* Line 29: the address names an explicit port
HasExplicitPort(address) ==
    Contains(address, ":") /\ address[Len(address)] # ":"

\* ExplicitPortBranch with address.split(":", 1): the port is the whole text
\* after the first colon
ExplicitPortBranch_SplitOnce(address) ==
    LET k == FirstIndex(address, ":")
        host == SubSeq(address, 1, k - 1)
        rest == SubSeq(address, k + 1, Len(address))
    IN IF IntOk(rest)
       THEN Return(host, Some(IntVal(rest)), None, None, <<>>)
       ELSE Raise("ValueError", <<>>)

\* Line 31
ExplicitPortBranch(address) ==
    LET parts == Split(address)
    IN IF IntOk(parts[2])
       THEN Return(parts[1], Some(IntVal(parts[2])), None, None, <<>>)
       ELSE Raise("ValueError", <<>>)

\* SrvBranch returning the SRV target as the host when one was found
SrvBranch_TargetAsHost(address, dns) ==
    LET srv == resolve_srv_record(address, dns)
    IN IF srv.raised
       THEN Raise(srv.exc, <<address>>)
       ELSE Return(IF srv.target # None THEN <<srv.target[1]>> ELSE address,
                   None, srv.target, srv.port, <<address>>)

\* Lines 33-34; srvLog lists the domains resolve_srv_record was called with
SrvBranch(address, dns) ==
    LET srv == resolve_srv_record(address, dns)
    IN IF srv.raised
       THEN Raise(srv.exc, <<address>>)
       ELSE Return(address, None, srv.target, srv.port, <<address>>)

\* Line 27
IpBranch(m) ==
    Return(m.group1,
           IF m.group2 # None THEN Some(IntVal(m.group2[1])) ELSE None,
           None, None, <<>>)

parse_address(address, dns) ==
    LET m == ip_match(address)
    IN IF m.matched THEN IpBranch(m)
       ELSE IF HasExplicitPort(address) THEN ExplicitPortBranch(address)
       ELSE SrvBranch(address, dns)

\* Whether parse_address awaits resolve_srv_record on this address
NeedsSrv(address) == ~ip_match(address).matched /\ ~HasExplicitPort(address)

(***************************************************************************)
(* motd_to_html and the clean derivation.                                  *)
(***************************************************************************)
Colors ==
    [c \in {"0", "1", "2", "3", "4", "5", "6", "7", "8", "9",
            "a", "b", "c", "d", "e", "f"} |->
        CASE c = "0" -> "<span style='color:#000000!important'>"
          [] c = "1" -> "<span style='color:#0000AA!important'>"
          [] c = "2" -> "<span style='color:#00AA00!important'>"
          [] c = "3" -> "<span style='color:#00AAAA!important'>"
          [] c = "4" -> "<span style='color:#AA0000!important'>"
          [] c = "5" -> "<span style='color:#AA00AA!important'>"
          [] c = "6" -> "<span style='color:#FFAA00!important'>"
          [] c = "7" -> "<span style='color:#AAAAAA!important'>"
          [] c = "8" -> "<span style='color:#555555!important'>"
          [] c = "9" -> "<span style='color:#5555FF!important'>"
          [] c = "a" -> "<span style='color:#55FF55!important'>"
          [] c = "b" -> "<span style='color:#55FFFF!important'>"
          [] c = "c" -> "<span style='color:#FF5555!important'>"
          [] c = "d" -> "<span style='color:#FF55FF!important'>"
          [] c = "e" -> "<span style='color:#FFFF55!important'>"
          [] c = "f" -> "<span style='color:#FFFFFF!important'>"]

\* Lines 56-62 and 88-91: the opening tag of each style code
Styles ==
    [c \in {"l", "o", "n", "m", "k"} |->
        CASE c = "l" -> "<span style='font-weight:bold;'>"
          [] c = "o" -> "<span style='font-style:italic;'>"
          [] c = "n" -> "<span style='text-decoration:underline;'>"
          [] c = "m" -> "<span style='text-decoration:line-through;'>"
          [] c = "k" -> "<span class='motd-obfuscated'>"]

CloseTag == "</span>"

\* str.lower() on the characters the model uses
Lower(c) ==
    CASE c = "A" -> "a" [] c = "B" -> "b" [] c = "C" -> "c" [] c = "D" -> "d"
      [] c = "E" -> "e" [] c = "F" -> "f" [] c = "K" -> "k" [] c = "L" -> "l"
      [] c = "M" -> "m" [] c = "N" -> "n" [] c = "O" -> "o" [] c = "R" -> "r"
      [] OTHER -> c

RECURSIVE Reverse(_)
Reverse(s) == IF s = <<>> THEN <<>> ELSE Reverse(Tail(s)) \o <<Head(s)>>

\* while current_styles: current_html += current_styles.pop()
PopAll(styles) == Reverse(styles)

\* The scanner's locals: i, current_html, current_color, current_styles
ScanState(idx, html, color, styles, fault) ==
    [i |-> idx, html |-> html, color |-> color, styles |-> styles, fault |-> fault]

\* ColorCode without line 81: the previous color element is left open
ColorCode_KeepsPrevious(st, code) ==
    LET closed == st.html \o PopAll(st.styles)
    IN IF st.color # code
       THEN ScanState(st.i + 2, closed \o <<Colors[code]>>, code, <<>>, FALSE)
       ELSE ScanState(st.i + 2, closed, st.color, <<>>, FALSE)

\* Lines 74-85
ColorCode(st, code) ==
    LET closed == st.html \o PopAll(st.styles)
    IN IF st.color # code
       THEN ScanState(st.i + 2,
                      (IF st.color # "" THEN closed \o <<CloseTag>> ELSE closed)
                          \o <<Colors[code]>>,
                      code, <<>>, FALSE)
       ELSE ScanState(st.i + 2, closed, st.color, <<>>, FALSE)

\* Lines 86-94
StyleCode(st, code) ==
    ScanState(st.i + 2, st.html \o <<Styles[code]>>, st.color,
              Append(st.styles, CloseTag), FALSE)

\* Lines 95-103
ResetCode(st) ==
    LET closed == st.html \o PopAll(st.styles)
    IN IF st.color # ""
       THEN ScanState(st.i + 2, closed \o <<CloseTag>>, "", <<>>, FALSE)
       ELSE ScanState(st.i + 2, closed, st.color, <<>>, FALSE)

\* Lines 105-106
Literal(m, st) ==
    ScanState(st.i + 1, st.html \o <<m[st.i + 1]>>, st.color, st.styles, FALSE)

\* Line 72: motd[i + 1] raises IndexError when the control character is last
IndexFault(st) == ScanState(st.i, st.html, st.color, st.styles, TRUE)

\* One iteration of the while loop of lines 70-106 (i is 0-based)
ScanStep(m, st) ==
    IF m[st.i + 1] = "&"
    THEN IF st.i + 1 >= Len(m)
         THEN IndexFault(st)
         ELSE LET code == Lower(m[st.i + 2])
              IN IF code \in DOMAIN Colors THEN ColorCode(st, code)
                 ELSE IF code \in DOMAIN Styles THEN StyleCode(st, code)
                 ELSE IF code = "r" THEN ResetCode(st)
                 ELSE Literal(m, st)
    ELSE Literal(m, st)

\* CloseRemaining without lines 111-112: the color element is not closed
CloseRemaining_StylesOnly(st) ==
    ScanState(st.i, st.html \o PopAll(st.styles), st.color, <<>>, FALSE)

\* Lines 108-112
CloseRemaining(st) ==
    LET closed == st.html \o PopAll(st.styles)
    IN ScanState(st.i, IF st.color # "" THEN closed \o <<CloseTag>> ELSE closed,
                 st.color, <<>>, FALSE)

\* Line 115
ReplaceNewlines(html) ==
    [k \in 1..Len(html) |-> IF html[k] = "\n" THEN "<br>" ELSE html[k]]

RECURSIVE ScanLoop(_, _)
ScanLoop(m, st) ==
    IF st.fault \/ st.i >= Len(m) THEN st ELSE ScanLoop(m, ScanStep(m, st))

\* The whole function: it raises IndexError or returns the html
motd_to_html(m) ==
    LET st == ScanLoop(m, ScanState(0, <<>>, "", <<>>, FALSE))
    IN IF st.fault THEN [raised |-> TRUE, html |-> <<>>]
       ELSE [raised |-> FALSE, html |-> ReplaceNewlines(CloseRemaining(st).html)]

\* The regular expression  U+00A7 .  at position k of x: the dot matches every
\* character but the newline
PairAt(x, k) == x[k] = "&" /\ k + 1 <= Len(x) /\ x[k + 1] # "\n"

\* Line 129: re.sub(r"\u00A7.", "", description), from position k on
RECURSIVE SubFrom(_, _)
SubFrom(x, k) ==
    IF k > Len(x) THEN <<>>
    ELSE IF PairAt(x, k) THEN SubFrom(x, k + 2)
    ELSE <<x[k]>> \o SubFrom(x, k + 1)

re_sub_clean(x) == SubFrom(x, 1)

(***************************************************************************)
(* The descriptions the renderer is run on.                                *)
(***************************************************************************)
MotdAlphabet == {"&", "a", "B", "l", "r", "x", "\n"}

\* Longer descriptions: colors and styles interleaved, and the cases the
\* specification names
ConcreteMotds ==
    {<<"&", "a", "&", "l", "&", "B", "x">>,
     <<"&", "a", "&", "l", "&", "o", "x", "&", "a", "y", "&", "r", "&", "r", "z">>,
     <<"&", "l", "x", "&", "a", "&", "l", "\n", "&", "B", "&", "k">>,
     <<"&", "a", "H", "e", "l", "l", "o", " ", "&", "l", "W", "o", "r", "l", "d", "&", "r", "!">>,
     <<"&", "a", "&", "a", "H", "i">>,
     <<"t", "e", "s", "t", "&">>,
     <<"&", "a", "&", "l", "&">>}

MotdInputs == StringsUpTo(MotdAlphabet, MaxMotdLen) \cup ConcreteMotds

(***************************************************************************)
(* The addresses parse_address is called with.                             *)
(***************************************************************************)
AddrAlphabet == {"1", "2", "a", ":", "."}

Octets == {<<"1">>, <<"9", "9", "9">>, <<"1", "1", "1", "1">>}

Suffixes == {<<>>, <<":", "2", "5">>, <<":">>, <<":", "a">>, <<".", "1">>}

DottedInputs ==
    {o1 \o <<".">> \o <<"2">> \o <<".">> \o <<"3">> \o <<".">> \o o4 \o sfx :
        o1 \in Octets, o4 \in Octets, sfx \in Suffixes}

AddrInputs == StringsUpTo(AddrAlphabet, MaxAddrLen) \cup DottedInputs

IdleParse == p_address = <<>> /\ p_pc = "idle" /\ p_ret = Return(<<>>, None, None, None, <<>>)

IdleMotd ==
    /\ motd = <<>> /\ m_pc = "idle" /\ motd_clean = <<>> /\ i = 0
    /\ current_html = <<>> /\ current_color = "" /\ current_styles = <<>>

NoReq == {}

IdleReq == req = <<>> /\ loop = NoReq

InitParse ==
    /\ p_address \in AddrInputs
    /\ p_pc = "call"
    /\ p_ret = Return(<<>>, None, None, None, <<>>)
    /\ IdleMotd /\ IdleReq

\* One call of parse_address, with whatever the DNS resolver does
ParseAddress ==
    /\ p_pc = "call"
    /\ \E dns \in DnsOutcomes :
          LET r == parse_address(p_address, dns)
          IN /\ p_ret' = r
             /\ p_pc' = IF r.raised THEN "raised" ELSE "returned"
    /\ UNCHANGED <<p_address, motdVars, reqVars>>

NextParse == ParseAddress

SpecParse == InitParse /\ [][NextParse]_vars

InitMotd ==
    /\ motd \in MotdInputs
    /\ m_pc = "clean"
    /\ motd_clean = <<>> /\ i = 0
    /\ current_html = <<>> /\ current_color = "" /\ current_styles = <<>>
    /\ IdleParse /\ IdleReq

Scanner == ScanState(i, current_html, current_color, current_styles, FALSE)

SetScanner(st) ==
    /\ i' = st.i
    /\ current_html' = st.html
    /\ current_color' = st.color
    /\ current_styles' = st.styles

\* Line 129 of get_java_status
MotdClean ==
    /\ m_pc = "clean"
    /\ motd_clean' = re_sub_clean(motd)
    /\ m_pc' = "scan"
    /\ UNCHANGED <<motd, i, current_html, current_color, current_styles, parseVars, reqVars>>

\* One iteration of the scan loop
MotdScan ==
    /\ m_pc = "scan"
    /\ i < Len(motd)
    /\ LET st == ScanStep(motd, Scanner)
       IN /\ SetScanner(st)
          /\ m_pc' = IF st.fault THEN "fault" ELSE "scan"
    /\ UNCHANGED <<motd, motd_clean, parseVars, reqVars>>

\* The loop has ended: lines 108-112
MotdClose ==
    /\ m_pc = "scan"
    /\ i >= Len(motd)
    /\ SetScanner(CloseRemaining(Scanner))
    /\ m_pc' = "replace"
    /\ UNCHANGED <<motd, motd_clean, parseVars, reqVars>>

\* Lines 115-117
MotdReturn ==
    /\ m_pc = "replace"
    /\ current_html' = ReplaceNewlines(current_html)
    /\ m_pc' = "done"
    /\ UNCHANGED <<motd, motd_clean, i, current_color, current_styles, parseVars, reqVars>>

NextMotd == MotdClean \/ MotdScan \/ MotdClose \/ MotdReturn

SpecMotd == InitMotd /\ [][NextMotd]_vars

(***************************************************************************)
(* The aggregators and the routes, on the event loop.                      *)
(*                                                                         *)
(* A coroutine holds the event loop from the moment it is resumed until it *)
(* awaits something that suspends it (asyncio.to_thread) or returns.       *)
(* Awaiting another coroutine (parse_address, resolve_srv_record,          *)
(* motd_to_html) runs it at once, without giving the loop away.            *)
(***************************************************************************)
Favicon == <<"f", "a", "v", "i", "c", "o", "n", ".", "i", "c", "o">>

\* base64.b64decode(s) raises binascii.Error on bad padding and skips
\* characters outside the alphabet; b64encode gives the canonical text
B64Decode(payload) ==
    IF payload.form = "badpadding"
    THEN [raised |-> TRUE, bytes |-> ""]
    ELSE [raised |-> FALSE, bytes |-> payload.bytes]

B64Encode(bytes) == [bytes |-> bytes, form |-> "canonical"]

\* java_status.icon: absent, or a string with or without a comma in it
Icons ==
    {None,
     Some([comma |-> TRUE, payload |-> [bytes |-> "PNG", form |-> "canonical"]]),
     Some([comma |-> TRUE, payload |-> [bytes |-> "PNG", form |-> "spaced"]]),
     Some([comma |-> TRUE, payload |-> [bytes |-> "PNG", form |-> "badpadding"]]),
     Some([comma |-> FALSE, payload |-> [bytes |-> "PNG", form |-> "canonical"]])}

ReqDescriptions ==
    {<<>>,
     <<"&", "a", "H", "i">>,
     <<"&", "\n", "x">>,
     <<"t", "&">>}

\* What JavaServer.status() gives: a status report, or an exception
JavaReports ==
    {[kind |-> "report", description |-> d, icon |-> ic, sample |-> sm,
      online |-> 1, max |-> 20, version |-> "1.20.4", protocol |-> 765] :
        d \in ReqDescriptions, ic \in Icons, sm \in {None, Some(<<"Steve">>)}}

\* What BedrockServer.status() gives
BedrockReports ==
    {[kind |-> "report", motd |-> d, players |-> pl, players_max |-> 20,
      version |-> "1.20.50"] :
        d \in ReqDescriptions, pl \in {<<>>, <<"Alex">>}}

Unreachable == [kind |-> "raise"]

QueryOutcomes(edition) ==
    {Unreachable} \cup (IF edition = "Java" THEN JavaReports ELSE BedrockReports)

NoStatus == [kind |-> "none"]
NoBody == [kind |-> "none"]

\* The frame of one request: the route's path parameter and the locals of
\* the aggregator.  bound says whether port, SRVtarget and SRVport have been
\* assigned (line 121); address is the parameter until then.
NewFrame(path, edition) ==
    [path |-> path, edition |-> edition, pc |-> "start",
     address |-> path, bound |-> FALSE,
     port |-> None, SRVtarget |-> None, SRVport |-> None,
     parsedPort |-> None, exc |-> "", status |-> NoStatus,
     http |-> 0, body |-> NoBody]

\* Line 121: the tuple parse_address returned is unpacked into the locals
Unpack(f, ret) ==
    [f EXCEPT !.address = ret.host, !.port = ret.port,
              !.SRVtarget = ret.SRVtarget, !.SRVport = ret.SRVport,
              !.parsedPort = ret.port, !.bound = TRUE, !.pc = "lookup"]

\* An exception raised inside the try block reaches line 158
Caught(f, exc) == [f EXCEPT !.exc = exc, !.pc = "except"]

\* The route returns the aggregator's record: HTTP 200
Respond(f, body) == [f EXCEPT !.http = 200, !.body = body, !.pc = "done"]

\* Lines 242-244: the route turns an escaped exception into HTTP 500
InternalServerError(f, exc) ==
    [f EXCEPT !.exc = exc, !.http = 500, !.pc = "done",
              !.body = [kind |-> "error", detail |-> "Internal Server Error"]]

\* Lines 124-127
JavaIcon(status) ==
    IF status.icon = None THEN [raised |-> FALSE, exc |-> "", icon |-> None]
    ELSE IF ~status.icon[1].comma
    THEN [raised |-> TRUE, exc |-> "IndexError", icon |-> None]
    ELSE LET dec == B64Decode(status.icon[1].payload)
         IN IF dec.raised
            THEN [raised |-> TRUE, exc |-> "binascii.Error", icon |-> None]
            ELSE [raised |-> FALSE, exc |-> "", icon |-> Some(B64Encode(dec.bytes))]

\* JavaOnline without lines 131-132: the port is passed through
JavaOnline_NoDefault(f, icon, html) ==
    [kind |-> "status", online |-> TRUE,
     host |-> f.address,
     port |-> f.port,
     srv |-> [target |-> f.SRVtarget, port |-> f.SRVport],
     type |-> "Java",
     version |-> [name_clean |-> f.status.version, protocol |-> f.status.protocol],
     players |-> [online |-> f.status.online, max |-> f.status.max,
                  list |-> IF f.status.sample # None THEN f.status.sample[1] ELSE <<>>],
     motd |-> [raw |-> f.status.description,
               clean |-> re_sub_clean(f.status.description),
               html |-> html],
     icon |-> icon]

\* Lines 131-157: the online record of get_java_status
JavaOnline(f, icon, html) ==
    [kind |-> "status", online |-> TRUE,
     host |-> f.address,
     port |-> IF f.port = None THEN Some(25565) ELSE f.port,
     srv |-> [target |-> f.SRVtarget, port |-> f.SRVport],
     type |-> "Java",
     version |-> [name_clean |-> f.status.version, protocol |-> f.status.protocol],
     players |-> [online |-> f.status.online, max |-> f.status.max,
                  list |-> IF f.status.sample # None THEN f.status.sample[1] ELSE <<>>],
     motd |-> [raw |-> f.status.description,
               clean |-> re_sub_clean(f.status.description),
               html |-> html],
     icon |-> icon]

\* Lines 124-157 of get_java_status, after the status query has returned
JavaBuild(f) ==
    LET ic == JavaIcon(f.status)
        html == motd_to_html(f.status.description)
    IN IF ic.raised THEN Caught(f, ic.exc)
       ELSE IF html.raised THEN Caught(f, "IndexError")
       ELSE Respond(f, JavaOnline(f, ic.icon, html.html))

\* Lines 172-190 of get_bedrock_status
BedrockBuild(f) ==
    Respond(f,
        [kind |-> "status", online |-> TRUE,
         host |-> f.address, port |-> f.port,
         srv |-> [target |-> f.SRVtarget, port |-> f.SRVport],
         type |-> "Bedrock",
         version |-> f.status.version,
         players |-> [online |-> Len(f.status.players), max |-> f.status.players_max,
                      list |-> f.status.players],
         motd |-> f.status.motd,
         icon |-> None])

\* Lines 158-165 and 191-198: the handler reads address and port; port is
\* unbound when parse_address raised, and reading it raises
\* UnboundLocalError, which leaves the aggregator
Handler(f) ==
    IF f.bound
    THEN Respond(f, [kind |-> "status", online |-> FALSE, host |-> f.address,
                     port |-> f.port, type |-> f.edition])
    ELSE InternalServerError(f, "UnboundLocalError")

Set(r, f) == req' = [req EXCEPT ![r] = f]

\* Lines 234-239 and 247-252: the route starts; the favicon probe gets an
\* empty answer, every other address enters the aggregator
RouteCall(r) ==
    /\ req[r].pc = "start"
    /\ loop = NoReq
    /\ IF req[r].path = Favicon
       THEN /\ Set(r, Respond(req[r], [kind |-> "null"]))
            /\ loop' = NoReq
       ELSE /\ Set(r, [req[r] EXCEPT !.pc = "parse"])
            /\ loop' = {r}
    /\ UNCHANGED <<parseVars, motdVars>>

\* Line 121, for an address that needs no SRV lookup: parse_address returns
\* or raises at once
ParseDirect(r) ==
    /\ req[r].pc = "parse"
    /\ loop = {r}
    /\ ~NeedsSrv(req[r].address)
    /\ LET ret == parse_address(req[r].address, [kind |-> "NoAnswer", records |-> <<>>])
       IN Set(r, IF ret.raised THEN Caught(req[r], ret.exc) ELSE Unpack(req[r], ret))
    /\ UNCHANGED <<loop, parseVars, motdVars>>

\* Lines 33 and 15: dns.resolver.resolve is called in the coroutine itself;
\* the call blocks the thread of the event loop until DNS has answered
DnsCall(r) ==
    /\ req[r].pc = "parse"
    /\ loop = {r}
    /\ NeedsSrv(req[r].address)
    /\ Set(r, [req[r] EXCEPT !.pc = "dns"])
    /\ UNCHANGED <<loop, parseVars, motdVars>>

\* Lines 15-21 and 34: DNS has answered or failed
DnsReturn(r) ==
    /\ req[r].pc = "dns"
    /\ loop = {r}
    /\ \E dns \in DnsOutcomes :
          LET ret == parse_address(req[r].address, dns)
          IN Set(r, IF ret.raised THEN Caught(req[r], ret.exc) ELSE Unpack(req[r], ret))
    /\ UNCHANGED <<loop, parseVars, motdVars>>

\* Lines 122-123: lookup builds the client, the status query is handed to
\* a worker thread and the coroutine is suspended.  (A failure of lookup is
\* raised in the same try block as a failure of the query; both are the
\* outcome Unreachable of QueryReturn.)
QuerySubmit(r) ==
    /\ req[r].pc = "lookup"
    /\ loop = {r}
    /\ Set(r, [req[r] EXCEPT !.pc = "query"])
    /\ loop' = NoReq
    /\ UNCHANGED <<parseVars, motdVars>>

\* Line 123: the worker thread has finished and the loop resumes the
\* coroutine with the report or with the exception
QueryReturn(r) ==
    /\ req[r].pc = "query"
    /\ loop = NoReq
    /\ \E out \in QueryOutcomes(req[r].edition) :
          IF out.kind = "raise"
          THEN Set(r, Caught(req[r], "QueryError"))
          ELSE Set(r, [req[r] EXCEPT !.status = out, !.pc = "build"])
    /\ loop' = {r}
    /\ UNCHANGED <<parseVars, motdVars>>

\* Lines 124-157 and 172-190: the record is built and returned, or an
\* exception is raised on the way
Build(r) ==
    /\ req[r].pc = "build"
    /\ loop = {r}
    /\ LET f == IF req[r].edition = "Java" THEN JavaBuild(req[r]) ELSE BedrockBuild(req[r])
       IN /\ Set(r, f)
          /\ loop' = IF f.pc = "done" THEN NoReq ELSE {r}
    /\ UNCHANGED <<parseVars, motdVars>>

\* Lines 158-165, 191-198 and 242-244
Except(r) ==
    /\ req[r].pc = "except"
    /\ loop = {r}
    /\ Set(r, Handler(req[r]))
    /\ loop' = NoReq
    /\ UNCHANGED <<parseVars, motdVars>>

NextReq ==
    \/ \E r \in DOMAIN req : RouteCall(r)
    \/ \E r \in DOMAIN req : ParseDirect(r)
    \/ \E r \in DOMAIN req : DnsCall(r)
    \/ \E r \in DOMAIN req : DnsReturn(r)
    \/ \E r \in DOMAIN req : QuerySubmit(r)
    \/ \E r \in DOMAIN req : QueryReturn(r)
    \/ \E r \in DOMAIN req : Build(r)
    \/ \E r \in DOMAIN req : Except(r)

\* The path parameters of the requests
ReqPaths ==
    {<<"a">>, <<"a", ":">>, <<"a", ":", "1">>, <<"a", ":", "b">>,
     <<"a", ":", "1", ":", "2">>,
     <<"1", ".", "2", ".", "3", ".", "4">>,
     <<"1", ".", "2", ".", "3", ".", "4", ":", "8", "0">>,
     Favicon}

LoopPaths == {<<"a">>, <<"a", ":", "1">>}

Editions == {"Java", "Bedrock"}

\* One request, every path
Init ==
    /\ req \in [{1} -> {NewFrame(p, e) : p \in ReqPaths, e \in Editions}]
    /\ loop = NoReq
    /\ IdleParse /\ IdleMotd

Spec == Init /\ [][NextReq]_vars

\* Several requests in flight on the one event loop
InitLoop ==
    /\ req \in [1..NumRequests -> {NewFrame(p, e) : p \in LoopPaths, e \in Editions}]
    /\ loop = NoReq
    /\ IdleParse /\ IdleMotd

SpecLoop == InitLoop /\ [][NextReq]_vars

(***************************************************************************)
(* Properties of parse_address (SpecParse).                                *)
(***************************************************************************)
ParseEnded == p_pc \in {"returned", "raised"}

IsLiteralIp(address) == ip_match(address).matched

\* The text before the first colon, and the text after it
BeforeColon(s) == SubSeq(s, 1, FirstIndex(s, ":") - 1)
AfterColon(s) == SubSeq(s, FirstIndex(s, ":") + 1, Len(s))

\* The text between the first colon and the second one (or the end)
PortField(s) ==
    LET rest == AfterColon(s)
    IN IF Contains(rest, ":") THEN BeforeColon(rest) ELSE rest

\* C7: when DNS answers or reports no record, parse_address returns a tuple
\* for every address and never raises.
C7_ParseIsTotal ==
    (ParseEnded /\ p_ret.exc # "DNSException") => p_pc = "returned"

\* C8 as stated: on a hostname with an explicit port, parse_address returns
\* host = the text before the first colon and port = the integer value of the
\* whole text after the first colon, also with more than one colon.
C8_PortIsWholeSuffix ==
    (p_pc = "returned" /\ ~IsLiteralIp(p_address) /\ HasExplicitPort(p_address)) =>
        /\ p_ret.host = BeforeColon(p_address)
        /\ IntOk(AfterColon(p_address))
        /\ p_ret.port = Some(IntVal(AfterColon(p_address)))

\* C8 amended: on such an address parse_address returns host = the text
\* before the first colon and port = the integer value of the text between
\* the first colon and the second colon (or the end of the address); when
\* that text is not a decimal integer it raises ValueError.
C8_PortIsSecondField ==
    (ParseEnded /\ ~IsLiteralIp(p_address) /\ HasExplicitPort(p_address)) =>
        IF IntOk(PortField(p_address))
        THEN /\ p_pc = "returned"
             /\ p_ret.host = BeforeColon(p_address)
             /\ p_ret.port = Some(IntVal(PortField(p_address)))
        ELSE p_pc = "raised" /\ p_ret.exc = "ValueError"

C8_Witness ==
    /\ p_pc = "returned"
    /\ ~IsLiteralIp(p_address) /\ HasExplicitPort(p_address)
    /\ Contains(AfterColon(p_address), ":")
    /\ p_ret.host = <<"a">>
    /\ p_ret.port = Some(1)

\* C9: one call of parse_address invokes resolve_srv_record exactly once on a
\* bare hostname and never on a literal IPv4 (with or without port) or on a
\* hostname with an explicit port; when it is invoked and the call returns,
\* the host is the original address and the port is absent.
C9_SrvDiscoveryOnce ==
    ParseEnded =>
        /\ (~IsLiteralIp(p_address) /\ ~Contains(p_address, ":")) =>
               p_ret.srvLog = <<p_address>>
        /\ (IsLiteralIp(p_address) \/ HasExplicitPort(p_address)) =>
               p_ret.srvLog = <<>>
        /\ (p_ret.srvLog # <<>> /\ p_pc = "returned") =>
               p_ret.host = p_address /\ p_ret.port = None

C9_Witness ==
    /\ p_pc = "returned"
    /\ ~Contains(p_address, ":") /\ Contains(p_address, "a")
    /\ Len(p_ret.srvLog) = 1
    /\ p_ret.SRVtarget = Some("a.example.net.")

(***************************************************************************)
(* Properties of the description processing (SpecMotd).                    *)
(***************************************************************************)
OpenTags == {Colors[c] : c \in DOMAIN Colors} \cup {Styles[c] : c \in DOMAIN Styles}
ColorTags == {Colors[c] : c \in DOMAIN Colors}

CountIn(html, tags) == Cardinality({k \in 1..Len(html) : html[k] \in tags})

\* The elements left open by a token sequence, outermost first; a closing
\* tag with nothing open leaves the marker "unmatched".
RECURSIVE OpenElements(_)
OpenElements(html) ==
    IF html = <<>> THEN <<>>
    ELSE LET before == OpenElements(SubSeq(html, 1, Len(html) - 1))
             t == html[Len(html)]
         IN IF t \in ColorTags THEN Append(before, "color")
            ELSE IF t \in OpenTags THEN Append(before, "style")
            ELSE IF t = CloseTag
                 THEN IF before = <<>> \/ before[Len(before)] = "unmatched"
                      THEN Append(before, "unmatched")
                      ELSE SubSeq(before, 1, Len(before) - 1)
            ELSE before

OpenColors(html) == CountIn(OpenElements(html), {"color"})

EndsInControl(x) == Len(x) > 0 /\ x[Len(x)] = "&"

\* C2: the html motd_to_html returns holds as many closing span elements as
\* opening ones, and every closing element closes an open one.
C2_HtmlBalanced ==
    m_pc = "done" =>
        /\ CountIn(current_html, OpenTags) = CountIn(current_html, {CloseTag})
        /\ OpenElements(current_html) = <<>>

\* the input ends while a color and a style are open, with no reset
C2_Witness ==
    /\ m_pc = "done"
    /\ ~Contains(motd, "r")
    /\ CountIn(current_html, OpenTags) >= 2
    /\ motd[Len(motd)] = "x"

\* C3: on an input whose last character is the control character,
\* motd_to_html completes and the html holds that character literally.
C3_TrailingControlIsLiteral ==
    (m_pc \in {"done", "fault"} /\ EndsInControl(motd)) =>
        m_pc = "done" /\ Contains(current_html, "&")

\* Stripping every pair "control character, any one character", left to right
RECURSIVE StripPairs(_)
StripPairs(x) ==
    IF x = <<>> THEN <<>>
    ELSE IF Head(x) = "&" /\ Len(x) >= 2 THEN StripPairs(SubSeq(x, 3, Len(x)))
    ELSE <<Head(x)>> \o StripPairs(Tail(x))

\* C4: motd.clean is the description with every such pair removed, and no
\* control character followed by another character remains in it.
C4_CleanStripsEveryPair ==
    m_pc \in {"scan", "replace", "done", "fault"} =>
        /\ motd_clean = StripPairs(motd)
        /\ \A k \in 1..Len(motd_clean) : motd_clean[k] = "&" => k = Len(motd_clean)

\* The color code the scan is about to interpret, or "" when the next step
\* is no color step
NextColorCode ==
    IF /\ m_pc = "scan" /\ i + 1 < Len(motd) /\ motd[i + 1] = "&"
       /\ Lower(motd[i + 2]) \in DOMAIN Colors
    THEN Lower(motd[i + 2])
    ELSE ""

\* C10 (state part): at every step of the scan at most one color element is
\* open, it is the outermost open element, and it is the active color's.
C10_OneColorOpen ==
    m_pc \in {"scan", "fault"} =>
        /\ OpenColors(current_html) = (IF current_color = "" THEN 0 ELSE 1)
        /\ \A k \in 2..Len(OpenElements(current_html)) :
               OpenElements(current_html)[k] = "style"
        /\ Len(OpenElements(current_html)) =
               Len(current_styles) + (IF current_color = "" THEN 0 ELSE 1)

\* C10 (step part): a color code equal to the active color emits no opening
\* element; a different one emits the closers of every open style, then the
\* closer of the previous color, then the new color's opening element.
C10_ColorStep ==
    NextColorCode # "" =>
        IF NextColorCode = current_color
        THEN current_html' = current_html \o Reverse(current_styles)
        ELSE /\ current_html' =
                   current_html \o Reverse(current_styles)
                       \o (IF current_color = "" THEN <<>> ELSE <<CloseTag>>)
                       \o <<Colors[NextColorCode]>>
             /\ OpenElements(current_html') = <<"color">>

\* C10: at most one color element is open at every step of the scan.
C10_AtMostOneColor == [](C10_OneColorOpen) /\ [][C10_ColorStep]_vars

\* a color code arrives while another color and a style are open
C10_Witness ==
    /\ m_pc = "scan"
    /\ current_color = "b"
    /\ i = 6
    /\ motd[1] = "&" /\ motd[2] = "a" /\ motd[4] = "l"
    /\ OpenElements(current_html) = <<"color">>

(***************************************************************************)
(* Properties of the aggregators and the routes (Spec, SpecLoop).          *)
(***************************************************************************)
Answered(r) == req[r].pc = "done" /\ req[r].path # Favicon

\* C1: whenever address resolution or the status query fails, the
\* aggregator returns a record with online=false and the route answers
\* normally; no such failure becomes an HTTP 500.
C1_FailuresBecomeOffline ==
    \A r \in DOMAIN req :
        (Answered(r) /\ req[r].exc # "") =>
            /\ req[r].http = 200
            /\ req[r].body.kind = "status"
            /\ req[r].body.online = FALSE

\* C5 as stated: every response of get_java_status for an address whose
\* resolved port is absent carries port=25565, online or not.
C5_PortDefaultsAlways ==
    \A r \in DOMAIN req :
        (/\ Answered(r) /\ req[r].edition = "Java" /\ req[r].bound
         /\ req[r].parsedPort = None /\ req[r].body.kind = "status") =>
            req[r].body.port = Some(25565)

\* C5 amended: for an address whose resolved port is absent, every
\* online=true response of get_java_status carries port=25565 and every
\* online=false response carries the absent port unchanged.
C5_PortDefaultsWhenOnline ==
    \A r \in DOMAIN req :
        (/\ Answered(r) /\ req[r].edition = "Java" /\ req[r].bound
         /\ req[r].parsedPort = None /\ req[r].body.kind = "status") =>
            IF req[r].body.online
            THEN req[r].body.port = Some(25565)
            ELSE req[r].body.port = None

C5_Witness ==
    \E r \in DOMAIN req :
        /\ Answered(r) /\ req[r].edition = "Java"
        /\ req[r].parsedPort = None /\ req[r].SRVport = Some(25566)
        /\ req[r].body.kind = "status" /\ req[r].body.online
        /\ req[r].body.port = Some(25565)

\* C6: while one request waits on its DNS SRV lookup or on its status
\* query, it does not hold the event loop, and another request that has
\* arrived can start.
C6_WaitingLeavesLoopFree ==
    \A r \in DOMAIN req :
        \A q \in DOMAIN req \ {r} :
            (/\ req[r].pc \in {"dns", "query"}
             /\ req[q].pc = "start"
             /\ loop \subseteq {r}) =>
                ENABLED RouteCall(q)

====
